---- MODULE Spec2Model ----
(***************************************************************************)
(* Model of generate_sample_pdf.py: a one-shot generator that assembles a  *)
(* fixed sequence of flowables (cover, narrative, table, chart) and hands  *)
(* it to one doc.build call that writes data/sample_financial_report.pdf.  *)
(*                                                                         *)
(* Text is a sequence of pieces; a piece is a sequence of strings: a prose *)
(* piece holds one string, a figure (a number as it is printed) holds one  *)
(* string per character, so that formatting and parsing are computed.      *)
(* EPS values are Python floats with two decimals in the source; they are  *)
(* kept in cents (1.56 -> 156).  The float sum 1.56+1.95+2.28+2.61 is      *)
(* 8.399999999999999, which "{:.2f}" prints as the digits of the exact     *)
(* cent sum, the rounding error being far below half a cent.               *)
(* Lengths are in tenths of a point (inch = 72 pt = 720).                  *)
(***************************************************************************)
EXTENDS Integers, Sequences, FiniteSets, TLC

VARIABLES pc, run, fsDir, fsFile, doc, styles, elements, stdout, exitCode,
          error, renderCalls, startDir, startFile, renders

vars == <<pc, run, fsDir, fsFile, doc, styles, elements, stdout, exitCode,
          error, renderCalls, startDir, startFile, renders>>

\* Number of consecutive runs of the program that are explored.
MaxRuns == 2

----------------------------------------------------------------------------
\* Number formatting, as Python's format specifications compute it.

DigitChar == <<"0", "1", "2", "3", "4", "5", "6", "7", "8", "9">>

IsDigit(ch) == \E d \in 1..10 : DigitChar[d] = ch

DigitVal(ch) == (CHOOSE d \in 1..10 : DigitChar[d] = ch) - 1

RECURSIVE Digits(_)
\* str(n) / "%d" % n for n >= 0
Digits(n) == IF n < 10 THEN <<DigitChar[n + 1]>>
             ELSE Digits(n \div 10) \o <<DigitChar[(n % 10) + 1]>>

RECURSIVE ZeroPad(_, _)
ZeroPad(s, w) == IF Len(s) >= w THEN s ELSE ZeroPad(<<"0">> \o s, w)

RECURSIVE FormatThousands(_)
\* f"{n:,}"
FormatThousands(n) ==
    IF n < 1000 THEN Digits(n)
    ELSE FormatThousands(n \div 1000) \o <<",">> \o ZeroPad(Digits(n % 1000), 3)

\* f"{x:.2f}" of a value of c cents
FormatFixed2(c) == Digits(c \div 100) \o <<".">> \o ZeroPad(Digits(c % 100), 2)

\* fmt % v for the chart's barLabelFormat: "%d" prints the integer; the program
\* uses no other format, and a float format is taken to print one decimal
FormatBarLabel(fmt, v) ==
    IF fmt = "%d" THEN Digits(v) ELSE Digits(v) \o <<".", "0">>

----------------------------------------------------------------------------
\* Reading a printed figure back.

RECURSIVE DigitsValue(_)
DigitsValue(s) == IF s = <<>> THEN 0
                  ELSE 10 * DigitsValue(SubSeq(s, 1, Len(s) - 1)) + DigitVal(s[Len(s)])

Without(s, ch) == SelectSeq(s, LAMBDA c : c # ch)

IsInteger(s) == s # <<>> /\ \A i \in 1..Len(s) : IsDigit(s[i])

\* "2,105" -> 2105 ; -1 when s is not a thousands-separated integer
ParseInt(s) == IF IsInteger(Without(s, ",")) THEN DigitsValue(Without(s, ",")) ELSE -1

\* "1.56" -> 156 ; -1 when s is not a two-decimal number
ParseCents(s) ==
    IF Len(s) >= 4 /\ s[Len(s) - 2] = "." /\ IsInteger(Without(s, "."))
       /\ Len(Without(s, ".")) = Len(s) - 1
    THEN DigitsValue(Without(s, ".")) ELSE -1

----------------------------------------------------------------------------
\* Constants of the program.

inch == 720

OUTPUT_PDF == "data/sample_financial_report.pdf"

COMPANY == "Acme Corp"

YEAR == 2024

\* the dataset with two digits of the third quarter's revenue exchanged
QUARTERLY_DATA_Typo == <<
    <<"Q1 2024", 2105, 312, 156>>,
    <<"Q2 2024", 2498, 389, 195>>,
    <<"Q3 2024", 2874, 456, 228>>,
    <<"Q4 2024", 3102, 521, 261>> >>

\* (Quarter, Revenue $M, Net Income $M, EPS in cents)
QUARTERLY_DATA == <<
    <<"Q1 2024", 2105, 312, 156>>,
    <<"Q2 2024", 2498, 389, 195>>,
    <<"Q3 2024", 2847, 456, 228>>,
    <<"Q4 2024", 3102, 521, 261>> >>

\* a sum that leaves out the first record
SumColumnSkipFirst(rows, k) ==
    LET S[i \in 1..Len(rows)] == IF i = 1 THEN 0 ELSE rows[i][k] + S[i - 1]
    IN  IF rows = <<>> THEN 0 ELSE S[Len(rows)]

RECURSIVE SumColumn(_, _)
\* sum(r[k] for r in rows)
SumColumn(rows, k) == IF rows = <<>> THEN 0
                      ELSE rows[1][k] + SumColumn(Tail(rows), k)

----------------------------------------------------------------------------
\* Flowables.

Lit(s) == <<s>>

Spacer(w, h) == [kind |-> "Spacer", width |-> w, height |-> h]

Paragraph(text, style) == [kind |-> "Paragraph", text |-> text, style |-> style]

PageBreak == [kind |-> "PageBreak"]

build_styles == [name \in {"CoverTitle", "CoverSubtitle", "BodyJustified",
                           "SectionHead", "TableCaption"} |->
    CASE name = "CoverTitle" ->
           [name |-> name, parent |-> "Title", fontSize |-> 28, leading |-> 34,
            alignment |-> "TA_CENTER", textColor |-> "", spaceBefore |-> -1,
            spaceAfter |-> 20]
      [] name = "CoverSubtitle" ->
           [name |-> name, parent |-> "Heading2", fontSize |-> 16, leading |-> -1,
            alignment |-> "TA_CENTER", textColor |-> "#555555", spaceBefore |-> -1,
            spaceAfter |-> 40]
      [] name = "BodyJustified" ->
           [name |-> name, parent |-> "BodyText", fontSize |-> 11, leading |-> 15,
            alignment |-> "TA_JUSTIFY", textColor |-> "", spaceBefore |-> -1,
            spaceAfter |-> 12]
      [] name = "SectionHead" ->
           [name |-> name, parent |-> "Heading2", fontSize |-> 16, leading |-> -1,
            alignment |-> "", textColor |-> "", spaceBefore |-> 20,
            spaceAfter |-> 10]
      [] name = "TableCaption" ->
           [name |-> name, parent |-> "Normal", fontSize |-> 10, leading |-> -1,
            alignment |-> "TA_CENTER", textColor |-> "#666666", spaceBefore |-> 6,
            spaceAfter |-> 16] ]

cover_page(st) == <<
    Spacer(1, 2 * inch),
    Paragraph(<<Lit(COMPANY)>>, st["CoverTitle"]),
    Paragraph(<<Lit("Quarterly Earnings Report &mdash; Fiscal Year "), Digits(YEAR)>>,
              st["CoverSubtitle"]),
    Spacer(1, inch \div 2),
    Paragraph(<<Lit("Prepared for Investors and Analysts<br/>Published: January 15, 2025")>>,
              st["CoverSubtitle"]),
    PageBreak >>

\* a narrative that ends its own page
narrative_sectionPaged(st) == <<
    Paragraph(<<Lit("Executive Summary")>>, st["SectionHead"]),
    Spacer(1, (3 * inch) \div 10),
    PageBreak >>

narrative_section(st) == <<
    Paragraph(<<Lit("Executive Summary")>>, st["SectionHead"]),
    Paragraph(<<Lit(COMPANY),
                Lit(" delivered record-breaking results in fiscal year "),
                Digits(YEAR),
                Lit(", driven by strong demand across our cloud computing and enterprise AI product lines. Total annual revenue reached $"),
                <<"1", "0", ",", "5", "5", "2">>,
                Lit(" million, representing year-over-year growth of 34%. The company continued to invest in next-generation GPU architectures and expanded its data centre footprint in three new regions.")>>,
              st["BodyJustified"]),
    Paragraph(<<Lit("Third-quarter performance was particularly notable, with revenue of $"),
                <<"2", ",", "8", "4", "7">>,
                Lit(" million and net income of $"),
                <<"4", "5", "6">>,
                Lit(" million. This was driven by a 42% increase in data-centre revenue and the successful launch of our new inference acceleration platform. Earnings per share for Q3 came in at $"),
                <<"2", ".", "2", "8">>,
                Lit(", exceeding consensus estimates by $0.12.")>>,
              st["BodyJustified"]),
    Paragraph(<<Lit("Looking ahead, management expects continued momentum in Q1 2025, with revenue guidance of $3,300 &ndash; $3,500 million. The company announced a $2 billion share repurchase programme and increased its quarterly dividend by 15%.")>>,
              st["BodyJustified"]),
    Spacer(1, (3 * inch) \div 10) >>

\* rows = [[q, f"{rev:,}", f"{ni:,}", f"{eps:.2f}"] for q, rev, ni, eps in data]
DataRows(data) == [i \in 1..Len(data) |->
    <<Lit(data[i][1]), FormatThousands(data[i][2]), FormatThousands(data[i][3]),
      FormatFixed2(data[i][4])>>]

\* the annual totals row appended to rows
TotalsRow(data) ==
    LET total_rev == SumColumn(data, 2)
        total_ni  == SumColumn(data, 3)
        total_eps == SumColumn(data, 4)
    IN  <<Lit("FY 2024 Total"), FormatThousands(total_rev), FormatThousands(total_ni),
          FormatFixed2(total_eps)>>

TableHeader == <<Lit("Quarter"), Lit("Revenue ($M)"), Lit("Net Income ($M)"), Lit("EPS ($)")>>

\* the totals row put before the quarters' rows
TableDataTotalsFirst(data) == <<TableHeader>> \o <<TotalsRow(data)>> \o DataRows(data)

\* table_data = [header] + rows, rows ending with the totals row
TableData(data) == <<TableHeader>> \o DataRows(data) \o <<TotalsRow(data)>>

TableStyle == <<
    <<"BACKGROUND", <<0, 0>>, <<-1, 0>>, "#76B900">>,
    <<"TEXTCOLOR", <<0, 0>>, <<-1, 0>>, "white">>,
    <<"FONTNAME", <<0, 0>>, <<-1, 0>>, "Helvetica-Bold">>,
    <<"FONTSIZE", <<0, 0>>, <<-1, 0>>, 11>>,
    <<"ALIGN", <<0, 0>>, <<-1, 0>>, "CENTER">>,
    <<"BOTTOMPADDING", <<0, 0>>, <<-1, 0>>, 10>>,
    <<"TOPPADDING", <<0, 0>>, <<-1, 0>>, 10>>,
    <<"FONTNAME", <<0, 1>>, <<-1, -1>>, "Helvetica">>,
    <<"FONTSIZE", <<0, 1>>, <<-1, -1>>, 10>>,
    <<"ALIGN", <<1, 1>>, <<-1, -1>>, "RIGHT">>,
    <<"ALIGN", <<0, 1>>, <<0, -1>>, "LEFT">>,
    <<"BOTTOMPADDING", <<0, 1>>, <<-1, -1>>, 7>>,
    <<"TOPPADDING", <<0, 1>>, <<-1, -1>>, 7>>,
    <<"BACKGROUND", <<0, 1>>, <<-1, 1>>, "#F5F5F5">>,
    <<"BACKGROUND", <<0, 3>>, <<-1, 3>>, "#F5F5F5">>,
    <<"BACKGROUND", <<0, 5>>, <<-1, 5>>, "#E8E8E8">>,
    <<"FONTNAME", <<0, -1>>, <<-1, -1>>, "Helvetica-Bold">>,
    <<"GRID", <<0, 0>>, <<-1, -1>>, 5, "#CCCCCC">>,
    <<"LINEBELOW", <<0, 0>>, <<-1, 0>>, 15, "#333333">>,
    <<"LINEABOVE", <<0, -1>>, <<-1, -1>>, 10, "#333333">> >>

Table(data, widths, style) ==
    [kind |-> "Table", data |-> data, colWidths |-> widths, style |-> style]

financial_table(st) == <<
    Paragraph(<<Lit("Quarterly Financial Highlights")>>, st["SectionHead"]),
    Table(TableData(QUARTERLY_DATA),
          <<(16 * inch) \div 10, (15 * inch) \div 10, (16 * inch) \div 10, (12 * inch) \div 10>>,
          TableStyle),
    Paragraph(<<Lit("Table 1: "), Lit(COMPANY),
                Lit(" Quarterly Financial Highlights, FY "), Digits(YEAR)>>,
              st["TableCaption"]) >>

\* a chart of the net income column
VerticalBarChartNetIncome(data) ==
    [x |-> 60, y |-> 40, width |-> 350, height |-> 180,
     data |-> << [i \in 1..Len(data) |-> data[i][3]] >>,
     categoryNames |-> [i \in 1..Len(data) |-> data[i][1]],
     valueMin |-> 0, valueMax |-> 3500, valueStep |-> 500,
     fillColor |-> "#76B900", strokeColor |-> "#5A8F00",
     barLabelNudge |-> 10, barLabelFormat |-> "%d"]

\* chart.data = [revenues]; chart.categoryAxis.categoryNames = [r[0] ...]
VerticalBarChart(data) ==
    [x |-> 60, y |-> 40, width |-> 350, height |-> 180,
     data |-> << [i \in 1..Len(data) |-> data[i][2]] >>,
     categoryNames |-> [i \in 1..Len(data) |-> data[i][1]],
     valueMin |-> 0, valueMax |-> 3500, valueStep |-> 500,
     fillColor |-> "#76B900", strokeColor |-> "#5A8F00",
     barLabelNudge |-> 10, barLabelFormat |-> "%d"]

\* (the title's em dash is written "--")
revenue_chart ==
    [kind |-> "Drawing", width |-> 450, height |-> 260,
     chart |-> VerticalBarChart(QUARTERLY_DATA),
     title |-> [x |-> 225, y |-> 240, textAnchor |-> "middle",
                text |-> <<Lit(COMPANY), Lit(" Quarterly Revenue ($M) -- FY "), Digits(YEAR)>>]]

\* The bars a vertical bar chart draws: one per value of each series, under
\* the category name of its position, labelled through barLabelFormat.
Bars(chart) == [s \in 1..Len(chart.data) |->
    [i \in 1..Len(chart.data[s]) |->
        [key   |-> chart.categoryNames[i],
         value |-> chart.data[s][i],
         label |-> FormatBarLabel(chart.barLabelFormat, chart.data[s][i])]]]

----------------------------------------------------------------------------
\* The filesystem: whether the directory data/ exists, and the target file.
\* A file is its state and the fragments its content was rendered from.

AbsentFile == [state |-> "absent", body |-> <<>>]

\* a target file left by something other than this program
StaleFile == [state |-> "stale", body |-> <<[kind |-> "Foreign"]>>]

\* what an interrupted write leaves: a truncated document
PartialFile(body) == [state |-> "partial", body |-> SubSeq(body, 1, Len(body) \div 2)]

\* The filesystem states a run may start from: directory absent; directory
\* present without the target file; directory present with the target file.
InitialFS == {<<FALSE, AbsentFile>>, <<TRUE, AbsentFile>>, <<TRUE, StaleFile>>}

\* a mkdir that does not honour exist_ok
MkdirStrict(exists, parents, exist_ok) ==
    IF exists THEN [dir |-> TRUE, err |-> "FileExistsError"]
    ELSE [dir |-> TRUE, err |-> "none"]

\* Path.mkdir(parents, exist_ok) on a path whose parent (the script's own
\* directory) exists; exists says whether the path is already a directory.
Mkdir(exists, parents, exist_ok) ==
    IF exists /\ ~exist_ok THEN [dir |-> TRUE, err |-> "FileExistsError"]
    ELSE [dir |-> TRUE, err |-> "none"]

\* a write that appends to what the file held
WriteDocumentAppend(old, body) == [state |-> "pdf", body |-> old.body \o body]

\* doc.build writes the rendered fragments to the target path, replacing
\* whatever the file held.
WriteDocument(old, body) == [state |-> "pdf", body |-> body]

\* OUTPUT_PDF.stat().st_size, measured in rendered fragments
st_size(file) == Len(file.body)

SimpleDocTemplate(filename) ==
    [filename |-> filename, pagesize |-> <<(85 * inch) \div 10, 11 * inch>>,
     leftMargin |-> inch, rightMargin |-> inch, topMargin |-> inch,
     bottomMargin |-> inch]

NoDoc == [filename |-> "", pagesize |-> <<0, 0>>, leftMargin |-> 0, rightMargin |-> 0,
          topMargin |-> 0, bottomMargin |-> 0]

NoStyles == [name \in {} |-> 0]

----------------------------------------------------------------------------
\* The run: pc names the statement the process executes next.

\* the table built before the narrative
ProgramOrderTableFirst == <<"import", "newdoc", "styles", "cover", "table", "narrative",
                  "spacer", "chart_heading", "chart", "chart_caption", "render",
                  "print_created", "print_size", "done">>

ProgramOrder == <<"import", "newdoc", "styles", "cover", "narrative", "table",
                  "spacer", "chart_heading", "chart", "chart_caption", "render",
                  "print_created", "print_size", "done">>

After(p) == LET i == CHOOSE k \in 1..Len(ProgramOrder) : ProgramOrder[k] = p
            IN  ProgramOrder[i + 1]

TypeOK ==
    /\ pc \in {ProgramOrder[i] : i \in 1..Len(ProgramOrder)} \cup {"failed"}
    /\ run \in 1..MaxRuns
    /\ fsDir \in BOOLEAN
    /\ fsFile.state \in {"absent", "stale", "partial", "pdf"}
    /\ exitCode \in {-1, 0, 1}
    /\ renderCalls \in 0..1
    /\ Len(renders) <= MaxRuns

Init ==
    /\ pc = "import"
    /\ run = 1
    /\ \E fs \in InitialFS : fsDir = fs[1] /\ fsFile = fs[2] /\ startDir = fs[1]
                             /\ startFile = fs[2]
    /\ doc = NoDoc
    /\ styles = NoStyles
    /\ elements = <<>>
    /\ stdout = <<>>
    /\ exitCode = -1
    /\ error = "none"
    /\ renderCalls = 0
    /\ renders = <<>>

\* Module level: OUTPUT_DIR.mkdir(parents=True, exist_ok=True)
ModuleInit ==
    /\ pc = "import"
    /\ LET r == Mkdir(fsDir, TRUE, TRUE)
       IN  IF r.err = "none"
           THEN /\ fsDir' = r.dir
                /\ pc' = After(pc)
                /\ UNCHANGED <<error, exitCode>>
           ELSE /\ pc' = "failed"
                /\ error' = r.err
                /\ exitCode' = 1
                /\ UNCHANGED fsDir
    /\ UNCHANGED <<run, fsFile, doc, styles, elements, stdout, renderCalls,
                   startDir, startFile, renders>>

\* a document template that opens (and truncates) its file when it is made
NewDocOpensFile ==
    /\ pc = "newdoc"
    /\ doc' = SimpleDocTemplate(OUTPUT_PDF)
    /\ fsFile' = PartialFile(<<>>)
    /\ pc' = After(pc)
    /\ UNCHANGED <<run, fsDir, styles, elements, stdout, exitCode, error,
                   renderCalls, startDir, startFile, renders>>

\* doc = SimpleDocTemplate(str(OUTPUT_PDF), ...): the file is not opened yet
NewDoc ==
    /\ pc = "newdoc"
    /\ doc' = SimpleDocTemplate(OUTPUT_PDF)
    /\ pc' = After(pc)
    /\ UNCHANGED <<run, fsDir, fsFile, styles, elements, stdout, exitCode, error,
                   renderCalls, startDir, startFile, renders>>

\* styles = build_styles(); elements = []
BuildStyles ==
    /\ pc = "styles"
    /\ styles' = build_styles
    /\ elements' = <<>>
    /\ pc' = After(pc)
    /\ UNCHANGED <<run, fsDir, fsFile, doc, stdout, exitCode, error, renderCalls,
                   startDir, startFile, renders>>

\* elements.extend(frags) / elements.append(frag) at position p of the run
Extend(p, frags) ==
    /\ pc = p
    /\ elements' = elements \o frags
    /\ pc' = After(pc)
    /\ UNCHANGED <<run, fsDir, fsFile, doc, styles, stdout, exitCode, error,
                   renderCalls, startDir, startFile, renders>>

AddCover == Extend("cover", cover_page(styles))

AddNarrative == Extend("narrative", narrative_section(styles))

AddTable == Extend("table", financial_table(styles))

AddSpacer == Extend("spacer", <<Spacer(1, (4 * inch) \div 10)>>)

AddChartHeading ==
    Extend("chart_heading", <<Paragraph(<<Lit("Revenue Trend")>>, styles["SectionHead"])>>)

AddChart == Extend("chart", <<revenue_chart>>)

AddChartCaption ==
    Extend("chart_caption",
           <<Paragraph(<<Lit("Figure 1: "), Lit(COMPANY),
                         Lit(" Quarterly Revenue Trend, FY "), Digits(YEAR)>>,
                       styles["TableCaption"])>>)

\* The record kept of one doc.build call: the filesystem the run started
\* from, the fragments handed over, how the call ended, the file it left.
RenderCall(outcome, file) ==
    [startDir |-> startDir, startFile |-> startFile, handed |-> elements,
     outcome |-> outcome, file |-> file]

\* doc.build(elements) returns: the document is written to the target path
RenderOk ==
    /\ pc = "render"
    /\ fsDir
    /\ fsFile' = WriteDocument(fsFile, elements)
    /\ renderCalls' = renderCalls + 1
    /\ renders' = Append(renders, RenderCall("returned", fsFile'))
    /\ pc' = After(pc)
    /\ UNCHANGED <<run, fsDir, doc, styles, elements, stdout, exitCode, error,
                   startDir, startFile>>

\* a failure of doc.build that is caught and passed over
RenderFailCaught ==
    /\ pc = "render"
    /\ \E cause \in {"LayoutError", "OSError"} : error' = cause
    /\ renderCalls' = renderCalls + 1
    /\ renders' = Append(renders, RenderCall("raised", fsFile))
    /\ pc' = After(pc)
    /\ UNCHANGED <<run, fsDir, fsFile, doc, styles, elements, stdout, exitCode,
                   startDir, startFile>>

\* doc.build(elements) raises: a layout error leaves the file alone, an I/O
\* error leaves it alone or truncated, a missing directory cannot be written
\* to.  Nothing catches the exception: the process ends with a trace.
RenderFail ==
    /\ pc = "render"
    /\ \E cause \in (IF fsDir THEN {"LayoutError", "OSError"} ELSE {"FileNotFoundError"}) :
         /\ error' = cause
         /\ \E left \in (IF cause = "OSError" THEN {fsFile, PartialFile(elements)}
                         ELSE {fsFile}) : fsFile' = left
    /\ renderCalls' = renderCalls + 1
    /\ renders' = Append(renders, RenderCall("raised", fsFile'))
    /\ pc' = "failed"
    /\ exitCode' = 1
    /\ UNCHANGED <<run, fsDir, doc, styles, elements, stdout, startDir, startFile>>

\* print(f"... Sample financial report created: {OUTPUT_PDF}")
PrintCreated ==
    /\ pc = "print_created"
    /\ stdout' = Append(stdout, [line |-> "created", path |-> OUTPUT_PDF, bytes |-> -1])
    /\ pc' = After(pc)
    /\ UNCHANGED <<run, fsDir, fsFile, doc, styles, elements, exitCode, error,
                   renderCalls, startDir, startFile, renders>>

\* print(f"   File size: {OUTPUT_PDF.stat().st_size / 1024:.1f} KB"), then the
\* program returns from build_pdf and exits with status 0
PrintSize ==
    /\ pc = "print_size"
    /\ IF fsFile.state = "absent"
       THEN /\ pc' = "failed"
            /\ error' = "FileNotFoundError"
            /\ exitCode' = 1
            /\ UNCHANGED stdout
       ELSE /\ stdout' = Append(stdout, [line |-> "size", path |-> OUTPUT_PDF,
                                          bytes |-> st_size(fsFile)])
            /\ pc' = After(pc)
            /\ exitCode' = 0
            /\ UNCHANGED error
    /\ UNCHANGED <<run, fsDir, fsFile, doc, styles, elements, renderCalls,
                   startDir, startFile, renders>>

\* The program is started again, after the environment has left the
\* filesystem as it is or put it in any state a run may start from.
Restart ==
    /\ pc \in {"done", "failed"}
    /\ run < MaxRuns
    /\ run' = run + 1
    /\ \E fs \in InitialFS \cup {<<fsDir, fsFile>>} :
         /\ fsDir' = fs[1] /\ fsFile' = fs[2]
         /\ startDir' = fs[1] /\ startFile' = fs[2]
    /\ pc' = "import"
    /\ doc' = NoDoc
    /\ styles' = NoStyles
    /\ elements' = <<>>
    /\ stdout' = <<>>
    /\ exitCode' = -1
    /\ error' = "none"
    /\ renderCalls' = 0
    /\ UNCHANGED renders

Next ==
    \/ ModuleInit
    \/ NewDoc
    \/ BuildStyles
    \/ AddCover
    \/ AddNarrative
    \/ AddTable
    \/ AddSpacer
    \/ AddChartHeading
    \/ AddChart
    \/ AddChartCaption
    \/ RenderOk
    \/ RenderFail
    \/ PrintCreated
    \/ PrintSize
    \/ Restart

Spec == Init /\ [][Next]_vars

----------------------------------------------------------------------------
\* Properties.

\* the fragment sequences handed to doc.build so far, and about to be
HandedOver == {renders[i].handed : i \in 1..Len(renders)}
                 \cup (IF pc = "render" THEN {elements} ELSE {})

Tables(h) == {i \in 1..Len(h) : h[i].kind = "Table"}

Drawings(h) == {i \in 1..Len(h) : h[i].kind = "Drawing"}

PageBreaks(h) == {i \in 1..Len(h) : h[i].kind = "PageBreak"}

Headings(h, title) == {i \in 1..Len(h) : h[i].kind = "Paragraph" /\ h[i].text = <<Lit(title)>>}

Kinds(h) == [i \in 1..Len(h) |-> h[i].kind]

\* C1: the totals row of the table built from QUARTERLY_DATA shows revenue
\* 10552, net income 1678 and EPS 8.40 (840 cents), printed as "10,552",
\* "1,678" and "8.40".
C1_AnnualTotals ==
    \A i \in Tables(elements) :
        LET total == elements[i].data[Len(elements[i].data)]
        IN  /\ ParseInt(total[2]) = 10552
            /\ ParseInt(total[3]) = 1678
            /\ ParseCents(total[4]) = 840
            /\ total[2] = <<"1", "0", ",", "5", "5", "2">>
            /\ total[3] = <<"1", ",", "6", "7", "8">>
            /\ total[4] = <<"8", ".", "4", "0">>

C1_Witness == pc = "spacer" /\ Tables(elements) # {}

\* C2: the table data has exactly 6 rows: the header, one row per record of
\* QUARTERLY_DATA in dataset order, the totals row last; every numeric cell
\* of the totals row is the sum of the cells above it in the 4 data rows.
C2_TableRows ==
    \A i \in Tables(elements) :
        LET d == elements[i].data
        IN  /\ Len(d) = 6
            /\ d[1][1] = Lit("Quarter")
            /\ \A c \in 2..4 : ParseInt(d[1][c]) = -1 /\ ParseCents(d[1][c]) = -1
            /\ \A r \in 1..4 :
                 /\ d[r + 1][1] = Lit(QUARTERLY_DATA[r][1])
                 /\ ParseInt(d[r + 1][2]) = QUARTERLY_DATA[r][2]
                 /\ ParseInt(d[r + 1][3]) = QUARTERLY_DATA[r][3]
                 /\ ParseCents(d[r + 1][4]) = QUARTERLY_DATA[r][4]
            /\ d[6][1] = Lit("FY 2024 Total")
            /\ \A c \in 2..3 :
                 ParseInt(d[6][c]) = ParseInt(d[2][c]) + ParseInt(d[3][c])
                                     + ParseInt(d[4][c]) + ParseInt(d[5][c])
            /\ ParseCents(d[6][4]) = ParseCents(d[2][4]) + ParseCents(d[3][4])
                                     + ParseCents(d[4][4]) + ParseCents(d[5][4])

C2_Witness == pc = "render" /\ \E i \in Tables(elements) : Len(elements[i].data) = 6

\* C3: a fragment sequence handed to doc.build holds exactly one PageBreak;
\* it follows the cover's last paragraph and precedes the "Executive
\* Summary" heading; and no sequence under construction holds more than one.
C3_OnePageBreak ==
    /\ Cardinality(PageBreaks(elements)) <= 1
    /\ \A h \in HandedOver :
         /\ Cardinality(PageBreaks(h)) = 1
         /\ \A i \in PageBreaks(h) :
              /\ i = Len(cover_page(build_styles))
              /\ SubSeq(h, 1, i) = cover_page(build_styles)
              /\ h[i - 1].kind = "Paragraph"
              /\ h[i - 1].style.name = "CoverSubtitle"
              /\ i + 1 \in Headings(h, "Executive Summary")

C3_Witness == pc = "render" /\ PageBreaks(elements) = {6}

\* C4: a fragment sequence handed to doc.build is the cover fragments, then
\* the narrative fragments, then the table block (heading, table, caption),
\* then, after one spacer, the chart block (heading, drawing, caption); each
\* block occurs once.
C4_BlockOrder ==
    \A h \in HandedOver :
        LET cover == cover_page(build_styles)
            narr  == narrative_section(build_styles)
            tab   == financial_table(build_styles)
            c     == Len(cover)
            n     == Len(narr)
            t     == Len(tab)
        IN  /\ Len(h) = c + n + t + 4
            /\ SubSeq(h, 1, c) = cover
            /\ SubSeq(h, c + 1, c + n) = narr
            /\ SubSeq(h, c + n + 1, c + n + t) = tab
            /\ Kinds(tab) = <<"Paragraph", "Table", "Paragraph">>
            /\ h[c + n + t + 1].kind = "Spacer"
            /\ Kinds(SubSeq(h, c + n + t + 2, Len(h))) = <<"Paragraph", "Drawing", "Paragraph">>
            /\ Headings(h, COMPANY) = {2}
            /\ Headings(h, "Executive Summary") = {c + 1}
            /\ Headings(h, "Quarterly Financial Highlights") = {c + n + 1}
            /\ Headings(h, "Revenue Trend") = {c + n + t + 2}
            /\ Tables(h) = {c + n + 2}
            /\ Drawings(h) = {c + n + t + 3}

C4_Witness == pc = "print_created" /\ Len(renders) = 1 /\ Len(renders[1].handed) = 18

\* C5: the chart has a value axis from 0 to 3500 in steps of 500 and one
\* series of 4 bars; bar i stands under the quarter label of record i and is
\* labelled with the revenue of record i printed as an integer.
C5_Chart ==
    \A i \in Drawings(elements) :
        LET chart == elements[i].chart
            bars  == Bars(chart)
        IN  /\ chart.valueMin = 0 /\ chart.valueMax = 3500 /\ chart.valueStep = 500
            /\ Len(bars) = 1
            /\ Len(bars[1]) = 4
            /\ \A b \in 1..4 :
                 /\ bars[1][b].key = QUARTERLY_DATA[b][1]
                 /\ bars[1][b].value = QUARTERLY_DATA[b][2]
                 /\ IsInteger(bars[1][b].label)
                 /\ DigitsValue(bars[1][b].label) = QUARTERLY_DATA[b][2]

C5_Witness == pc = "chart_caption" /\ Drawings(elements) # {}

\* the figures the narrative states: the paragraph after the "Executive
\* Summary" heading gives the annual revenue (piece 5), the next paragraph
\* the third quarter's revenue, net income and EPS (pieces 2, 4 and 6)
StatedFigures(h) ==
    {[annual |-> h[i + 1].text[5], q3rev |-> h[i + 2].text[2],
      q3ni |-> h[i + 2].text[4], q3eps |-> h[i + 2].text[6]] :
        i \in {j \in Headings(h, "Executive Summary") :
                 /\ Len(h) >= j + 2
                 /\ h[j + 1].kind = "Paragraph" /\ Len(h[j + 1].text) >= 5
                 /\ h[j + 2].kind = "Paragraph" /\ Len(h[j + 2].text) >= 6}}

\* C10: the figures the narrative states agree with the dataset: the annual
\* revenue is the sum of the revenue column, and the third quarter's
\* revenue, net income and EPS are the fields of the "Q3 2024" record.
C10_NarrativeFigures ==
    /\ Headings(elements, "Executive Summary") # {} => StatedFigures(elements) # {}
    /\ \A f \in StatedFigures(elements) :
         /\ ParseInt(f.annual) = QUARTERLY_DATA[1][2] + QUARTERLY_DATA[2][2]
                                 + QUARTERLY_DATA[3][2] + QUARTERLY_DATA[4][2]
         /\ \E r \in 1..Len(QUARTERLY_DATA) :
              /\ QUARTERLY_DATA[r][1] = "Q3 2024"
              /\ ParseInt(f.q3rev) = QUARTERLY_DATA[r][2]
              /\ ParseInt(f.q3ni) = QUARTERLY_DATA[r][3]
              /\ ParseCents(f.q3eps) = QUARTERLY_DATA[r][4]

C10_Witness == pc = "table" /\ StatedFigures(elements) # {}

Position(p) == CHOOSE k \in 1..Len(ProgramOrder) : ProgramOrder[k] = p

\* the render call has not begun
BeforeRender == pc # "failed" /\ Position(pc) <= Position("render")

\* C6 (as stated): before the render call begins nothing in the filesystem
\* has changed since the program started and nothing has been printed.
C6_NoSideEffectBeforeRender ==
    BeforeRender => fsDir = startDir /\ fsFile = startFile /\ stdout = <<>>

\* C6 (amended): before the render call begins the only side effect is the
\* start-up mkdir, which creates the output directory when it is absent:
\* the target file is as it was at start and nothing has been printed.
C6_OnlyMkdirBeforeRender ==
    BeforeRender =>
        /\ fsFile = startFile
        /\ stdout = <<>>
        /\ pc = "import" => fsDir = startDir
        /\ pc # "import" => fsDir

C6_Witness == pc = "render" /\ ~startDir /\ fsDir /\ startFile = fsFile

\* C7: from each filesystem state a run may start in, no error is raised
\* because the directory or the file exists or is missing, the render call
\* finds the directory present, and once it has returned the directory is
\* present and the target file holds the document just rendered.
C7_RunEndsWithDocument ==
    /\ error \notin {"FileExistsError", "FileNotFoundError"}
    /\ pc = "render" => fsDir
    /\ pc \in {"print_created", "print_size", "done"} =>
         /\ fsDir
         /\ fsFile = [state |-> "pdf", body |-> elements]
    /\ pc = "done" => exitCode = 0

C7_Witness ==
    /\ pc = "done" /\ ~startDir /\ fsDir /\ fsFile.state = "pdf"
    /\ Len(renders) = 2 /\ renders[1].startFile.state = "stale"
    /\ renders[1].outcome = "returned"

\* C8: every run hands the same fragment sequence to doc.build, and every
\* run whose render returns leaves the same file content, of the same size,
\* whatever filesystem state the run started from.
C8_SameOutput ==
    \A i, j \in 1..Len(renders) :
        /\ renders[i].handed = renders[j].handed
        /\ renders[i].outcome = "returned" /\ renders[j].outcome = "returned" =>
             /\ renders[i].file = renders[j].file
             /\ st_size(renders[i].file) = st_size(renders[j].file)

C8_Witness ==
    /\ Len(renders) = 2
    /\ renders[1].outcome = "returned" /\ renders[2].outcome = "returned"
    /\ renders[1].startFile.state = "stale" /\ ~renders[2].startDir

LastRender == renders[Len(renders)]

C9_State ==
    /\ renderCalls <= 1
    /\ pc = "failed" => /\ exitCode = 1
                        /\ stdout = <<>>
                        /\ renderCalls = 1
                        /\ LastRender.outcome = "raised"
                        /\ fsFile = LastRender.file
    /\ stdout # <<>> => renderCalls = 1 /\ LastRender.outcome = "returned"
    /\ renderCalls = 1 /\ LastRender.outcome = "raised" => pc = "failed"

C9_Step ==
    /\ pc = "failed" => pc' = "import" /\ run' = run + 1
    /\ stdout' # stdout /\ stdout' # <<>> =>
         pc \in {"print_created", "print_size"} /\ LastRender.outcome = "returned"

\* C9: a failure of the render call is not caught: the run is then in its
\* failed state with a non-zero status, has printed nothing, has called
\* doc.build once, and leaves the file as the failed call left it; nothing
\* follows but a new start of the program; lines are printed only after the
\* render call has returned.
C9_FailureUnhandled == []C9_State /\ [][C9_Step]_vars

C9_Witness == pc = "failed" /\ fsFile.state = "partial" /\ startFile.state = "stale"

====
